---------------------------- MODULE Spec2Model ----------------------------
(***************************************************************************)
(* Model of the trans-engine crate: the rule IR and its evaluator          *)
(* (src/lang.rs), the rule-line parser (src/parser.rs) and the batch       *)
(* driver (src/engine.rs).                                                 *)
(*                                                                         *)
(* A Rust `char` is modelled by its Unicode scalar value (an integer) and  *)
(* a `String` by the sequence of its chars; byte lengths and byte offsets  *)
(* are computed from the UTF-8 width of each char, because the source      *)
(* mixes `str::len` (bytes) with `chars()` (scalars).                      *)
(***************************************************************************)
EXTENDS Integers, Sequences, FiniteSets, TLC

VARIABLES
    overflow_checks,  \* build profile: TRUE = debug (overflow panics), FALSE = release (wraps)
    \* ---- engine::run ----
    rules,            \* argument `rules: Vec<String>`
    words,            \* argument `words: Vec<String>`
    pc,               \* position of engine::run
    element,          \* number of rule lines already iterated by `for element in rules.iter()`
    rules_slice,      \* `rules_slice`: the simplified rules of the current line
    finished,         \* indices of `words` in the order the workers completed them
    results,          \* per word index, the value of the filter_map closure (or Pending)
    thread_results,   \* `thread_results`
    output_array,     \* `output_array`
    returned,         \* per call of run that returned: its arguments, the order in which
                      \* the workers of its last line finished, and the Vec it returned
    \* ---- successive parse_line calls on one `&mut &str` ----
    input,            \* the remaining input
    ppc,              \* "ready" / "failed" / "idle"
    calls,            \* per call so far: the input before it and what it returned
    \* ---- evaluator / simplifier applied to an IR sequence ----
    ev_rules,         \* a Vec<Rule>
    ev_word,          \* the input word
    ev_pc,            \* "start" / "ran" / "idle"
    ev_each,          \* Rule::run of every rule of ev_rules on ev_word
    ev_direct,        \* Rule::run_all(ev_rules, ev_word)
    ev_simplified,    \* Rule::simplify(ev_rules)
    ev_via            \* Rule::run_all(Rule::simplify(ev_rules), ev_word)

vars == <<overflow_checks, rules, words, pc, element, rules_slice, finished,
          results, thread_results, output_array, returned, input, ppc, calls,
          ev_rules, ev_word, ev_pc, ev_each, ev_direct, ev_simplified, ev_via>>

(***************************************************************************)
(* Bounds of the model.                                                    *)
(***************************************************************************)
MaxLines == 2
MaxWords == 2
MaxRules == 3
MaxCalls == 3
MaxInput == 4
MaxRangeInput == 5
MaxRuns == 2

(***************************************************************************)
(* Characters and strings.                                                 *)
(***************************************************************************)
Ascii ==
    <<" ", "!", "\"", "#", "$", "%", "&", "'", "(", ")", "*", "+", ",", "-", ".", "/",
      "0", "1", "2", "3", "4", "5", "6", "7", "8", "9", ":", ";", "<", "=", ">", "?",
      "@", "A", "B", "C", "D", "E", "F", "G", "H", "I", "J", "K", "L", "M", "N", "O",
      "P", "Q", "R", "S", "T", "U", "V", "W", "X", "Y", "Z", "[", "\\", "]", "^", "_",
      "grave", "a", "b", "c", "d", "e", "f", "g", "h", "i", "j", "k", "l", "m", "n", "o",
      "p", "q", "r", "s", "t", "u", "v", "w", "x", "y", "z", "{", "|", "}", "~">>

\* The scalar value of a one-character literal.
Ord(c) ==
    IF c = "\n" THEN 10
    ELSE IF c = "\t" THEN 9
    ELSE 31 + (CHOOSE i \in 1..Len(Ascii) : Ascii[i] = c)

\* A string literal, written as the tuple of its characters.
Str(t) == [i \in 1..Len(t) |-> Ord(t[i])]

\* U+00BA, a two-byte character: the second character of the non-ASCII input of
\* parse_non_ascii_rules.
NON_ASCII == 186

Min(a, b) == IF a <= b THEN a ELSE b
Max(a, b) == IF a >= b THEN a ELSE b

\* Iterator::take / Iterator::skip over chars().
Take(s, n) == SubSeq(s, 1, Min(n, Len(s)))
Skip(s, n) == IF n >= Len(s) THEN <<>> ELSE SubSeq(s, n + 1, Len(s))
Rev(s) == [i \in 1..Len(s) |-> s[Len(s) + 1 - i]]

\* str::repeat
Repeat(s, k) == [i \in 1..(k * Len(s)) |-> s[((i - 1) % Len(s)) + 1]]

\* char::len_utf8
Utf8Len(c) == IF c < 128 THEN 1 ELSE IF c < 2048 THEN 2 ELSE IF c < 65536 THEN 3 ELSE 4

\* str::len: the length in bytes.
ByteLen(s) ==
    LET count(k) == Cardinality({i \in 1..Len(s) : Utf8Len(s[i]) = k})
    IN  count(1) + 2 * count(2) + 3 * count(3) + 4 * count(4)

\* The byte offset char_indices() gives the i-th char (1-based i).
ByteOffset(s, i) == ByteLen(SubSeq(s, 1, i - 1))

(***************************************************************************)
(* Case mapping of std, for the scalars the model can produce: Latin-1,    *)
(* and the three scalars outside it that Latin-1 maps to.                  *)
(***************************************************************************)
IsUppercase(c) ==
    \/ c \in 65..90
    \/ c \in 192..214
    \/ c \in 216..222
    \/ c \in {376, 924}

\* char::to_lowercase
ToLowercase(c) ==
    IF c \in 65..90 \/ c \in 192..214 \/ c \in 216..222 THEN <<c + 32>>
    ELSE IF c = 376 THEN <<255>>
    ELSE IF c = 924 THEN <<956>>
    ELSE <<c>>

\* char::to_uppercase
ToUppercase(c) ==
    IF c \in 97..122 \/ c \in 224..246 \/ c \in 248..254 THEN <<c - 32>>
    ELSE IF c = 181 THEN <<924>>
    ELSE IF c = 223 THEN <<83, 83>>
    ELSE IF c = 255 THEN <<376>>
    ELSE IF c = 956 THEN <<924>>
    ELSE <<c>>

\* str::to_lowercase / str::to_uppercase
RECURSIVE str_to_lowercase(_)
str_to_lowercase(s) ==
    IF s = <<>> THEN <<>> ELSE ToLowercase(Head(s)) \o str_to_lowercase(Tail(s))

RECURSIVE str_to_uppercase(_)
str_to_uppercase(s) ==
    IF s = <<>> THEN <<>> ELSE ToUppercase(Head(s)) \o str_to_uppercase(Tail(s))

\* The closure of ToggleCase: the first char of the other case's mapping.
ToggleChar(c) ==
    IF IsUppercase(c) THEN Head(ToLowercase(c)) ELSE Head(ToUppercase(c))

(***************************************************************************)
(* str::contains / starts_with / ends_with / matches / replace with a      *)
(* string pattern.                                                         *)
(***************************************************************************)
StartsWith(s, p) == Len(p) <= Len(s) /\ SubSeq(s, 1, Len(p)) = p
EndsWith(s, p) == Len(p) <= Len(s) /\ SubSeq(s, Len(s) - Len(p) + 1, Len(s)) = p
Contains(s, p) == \E i \in 0..(Len(s) - Len(p)) : SubSeq(s, i + 1, i + Len(p)) = p

\* str::matches(p).count(): non-overlapping matches, scanned left to right;
\* the empty pattern matches at every char boundary.
RECURSIVE MatchCount(_, _)
MatchCount(s, p) ==
    IF p = <<>> THEN Len(s) + 1
    ELSE IF Len(s) < Len(p) THEN 0
    ELSE IF StartsWith(s, p) THEN 1 + MatchCount(Skip(s, Len(p)), p)
    ELSE MatchCount(Tail(s), p)

\* str::replace(a, b)
RECURSIVE ReplaceNonEmpty(_, _, _)
ReplaceNonEmpty(s, a, b) ==
    IF Len(s) < Len(a) THEN s
    ELSE IF StartsWith(s, a) THEN b \o ReplaceNonEmpty(Skip(s, Len(a)), a, b)
    ELSE <<Head(s)>> \o ReplaceNonEmpty(Tail(s), a, b)

RECURSIVE ReplaceEmpty(_, _)
ReplaceEmpty(s, b) ==
    IF s = <<>> THEN b ELSE b \o <<Head(s)>> \o ReplaceEmpty(Tail(s), b)

str_replace(s, a, b) == IF a = <<>> THEN ReplaceEmpty(s, b) ELSE ReplaceNonEmpty(s, a, b)


(***************************************************************************)
(* The rule IR (enum Rule, TransformRule, RejectRule).  Every rule is a    *)
(* record of one shape: kind, op and the operands the variant uses         *)
(* (n, m: usize; some: whether an Option<usize> is Some; s, t: String).    *)
(***************************************************************************)
MkRule(kind, op, some, n, m, s, t) ==
    [kind |-> kind, op |-> op, some |-> some, n |-> n, m |-> m, s |-> s, t |-> t]

NoOp == MkRule("NoOp", "NoOp", FALSE, 0, 0, <<>>, <<>>)
End == MkRule("End", "End", FALSE, 0, 0, <<>>, <<>>)
T0(op) == MkRule("Transform", op, FALSE, 0, 0, <<>>, <<>>)
TN(op, n) == MkRule("Transform", op, TRUE, n, 0, <<>>, <<>>)
TNM(op, n, m) == MkRule("Transform", op, TRUE, n, m, <<>>, <<>>)
TS(op, s) == MkRule("Transform", op, FALSE, 0, 0, s, <<>>)
TNS(op, n, s) == MkRule("Transform", op, TRUE, n, 0, s, <<>>)
TST(op, s, t) == MkRule("Transform", op, FALSE, 0, 0, s, t)
RN(op, n) == MkRule("Reject", op, TRUE, n, 0, <<>>, <<>>)
RS(op, s) == MkRule("Reject", op, FALSE, 0, 0, s, <<>>)
RNS(op, n, s) == MkRule("Reject", op, TRUE, n, 0, s, <<>>)

\* Option<String>, and the unwinding of a panic.
Some(v) == [st |-> "Some", val |-> v]
None == [st |-> "None", val |-> <<>>]
Panic == [st |-> "Panic", val |-> <<>>]

(***************************************************************************)
(* TransformRule::run.  The value is Some(output), or Panic where the      *)
(* source unwraps a None or an arithmetic overflow check fails.            *)
(***************************************************************************)
\* Capitalize that leaves the rest of the word as it is.
Capitalize_keeps_rest(s) ==
    IF s = <<>> THEN <<>> ELSE ToUppercase(Head(s)) \o Tail(s)

Capitalize(s) ==
    IF s = <<>> THEN <<>> ELSE ToUppercase(Head(s)) \o str_to_lowercase(Tail(s))

\* InvertCapitalize that leaves the rest of the word as it is.
InvertCapitalize_keeps_rest(s) ==
    IF s = <<>> THEN <<>> ELSE ToLowercase(Head(s)) \o Tail(s)

InvertCapitalize(s) ==
    IF s = <<>> THEN <<>> ELSE ToLowercase(Head(s)) \o str_to_uppercase(Tail(s))

\* ToggleCase(Some(n)) compares n with the byte offset of char_indices().
ToggleCase(s, some, n) ==
    IF some
    THEN [i \in 1..Len(s) |-> IF ByteOffset(s, i) = n THEN ToggleChar(s[i]) ELSE s[i]]
    ELSE [i \in 1..Len(s) |-> ToggleChar(s[i])]

\* Duplicate with n copies in total for `pN`.
Duplicate_n_copies(s, some, n) == Repeat(s, IF some THEN n ELSE 2)

\* Duplicate with 1 + (n ?? 1) copies appended to the word.
Duplicate_appended(s, some, n) == Repeat(s, 2 + (IF some THEN n ELSE 1))

\* input.repeat(1 + n.unwrap_or(1) as usize)
Duplicate(s, some, n) == Repeat(s, 1 + (IF some THEN n ELSE 1))

Rotate(s, left) ==
    IF s = <<>> THEN Panic
    ELSE IF left THEN Some(Tail(s) \o <<Head(s)>>)
    ELSE Some(<<s[Len(s)]>> \o SubSeq(s, 1, Len(s) - 1))

\* Swap(a, b): positions are 0-based indices of chars().enumerate().
Swap(s, a, b) ==
    LET lo == Min(a, b)
        hi == Max(a, b)
    IN  IF lo < Len(s) /\ hi >= Len(s) THEN Panic
        ELSE Some([i \in 1..Len(s) |->
                     IF i - 1 = lo THEN s[hi + 1]
                     ELSE IF i - 1 = hi THEN s[lo + 1]
                     ELSE s[i]])

\* Truncate::Right takes input.len() - 1 chars: a byte length, and a usize
\* subtraction that overflows on the empty string.
TruncateRight(s) ==
    IF ByteLen(s) = 0
    THEN (IF overflow_checks THEN Panic ELSE Some(s))
    ELSE Some(Take(s, ByteLen(s) - 1))

SwapFront(s) ==
    IF Len(s) < 2 THEN Panic ELSE Some(<<s[2], s[1]>> \o Skip(s, 2))

SwapBack(s) ==
    IF Len(s) < 2 THEN Panic
    ELSE Some(SubSeq(s, 1, Len(s) - 2) \o <<s[Len(s)], s[Len(s) - 1]>>)

\* u8 << usize and u8 >> usize: a shift count >= 8 fails the overflow check,
\* and without the check the count is taken modulo 8.
Shl8(c, n) == ((c % 256) * (2 ^ (n % 8))) % 256
Shr8(c, n) == (c % 256) \div (2 ^ (n % 8))

BitwiseShift(s, n, left) ==
    IF s # <<>> /\ n >= 8 /\ overflow_checks THEN Panic
    ELSE Some([i \in 1..Len(s) |-> IF left THEN Shl8(s[i], n) ELSE Shr8(s[i], n)])

\* u8::wrapping_add / wrapping_sub of `n as u8`.
AsciiIncrement(s, n) == [i \in 1..Len(s) |-> ((s[i] % 256) + (n % 256)) % 256]
AsciiDecrement(s, n) == [i \in 1..Len(s) |-> ((s[i] % 256) - (n % 256)) % 256]

ReplaceWithNext(s, n) ==
    IF n < Len(s) /\ n + 1 >= Len(s) THEN Panic
    ELSE Some([i \in 1..Len(s) |-> IF i - 1 = n THEN s[i + 1] ELSE s[i]])

\* i - 1 with i = 0 fails the overflow check, or wraps to usize::MAX, where
\* nth() is None and unwrap panics.
ReplaceWithPrev(s, n) ==
    IF n < Len(s) /\ n = 0 THEN Panic
    ELSE Some([i \in 1..Len(s) |-> IF i - 1 = n THEN s[i - 1] ELSE s[i]])

RECURSIVE DuplicateAll(_)
DuplicateAll(s) ==
    IF s = <<>> THEN <<>> ELSE <<Head(s), Head(s)>> \o DuplicateAll(Tail(s))

TransformRule_run(r, s) ==
    CASE r.op = "Lowercase" -> Some(str_to_lowercase(s))
      [] r.op = "Uppercase" -> Some(str_to_uppercase(s))
      [] r.op = "Capitalize" -> Some(Capitalize(s))
      [] r.op = "InvertCapitalize" -> Some(InvertCapitalize(s))
      [] r.op = "ToggleCase" -> Some(ToggleCase(s, r.some, r.n))
      [] r.op = "Reverse" -> Some(Rev(s))
      [] r.op = "Duplicate" -> Some(Duplicate(s, r.some, r.n))
      [] r.op = "Reflect" -> Some(s \o Rev(s))
      [] r.op = "RotateLeft" -> Rotate(s, TRUE)
      [] r.op = "RotateRight" -> Rotate(s, FALSE)
      [] r.op = "Append" -> Some(s \o r.s)
      [] r.op = "Prepend" -> Some(r.s \o s)
      [] r.op = "Swap" -> Swap(s, r.n, r.m)
      [] r.op = "Delete" -> Some(Take(s, r.n) \o Skip(s, r.n + 1))
      [] r.op = "Extract" -> Some(Take(Skip(s, r.n), r.m))
      [] r.op = "Omit" -> Some(Take(s, r.n) \o Skip(s, r.n + r.m))
      [] r.op = "Insert" -> Some(Take(s, r.n) \o r.s \o Skip(s, r.n))
      [] r.op = "Overwrite" -> Some(Take(s, r.n) \o r.s \o Skip(s, r.n + ByteLen(r.s)))
      [] r.op = "TruncateLeft" -> Some(Skip(s, 1))
      [] r.op = "TruncateRight" -> TruncateRight(s)
      [] r.op = "TruncateTo" -> Some(Take(s, r.n))
      [] r.op = "Replace" -> Some(str_replace(s, r.s, r.t))
      [] r.op = "Purge" -> Some(str_replace(s, r.s, <<>>))
      [] r.op = "DuplicateFirst" ->
            Some(IF s = <<>> THEN s ELSE Repeat(<<Head(s)>>, r.n) \o s)
      [] r.op = "DuplicateLast" ->
            Some(IF s = <<>> THEN s ELSE s \o Repeat(<<s[Len(s)]>>, r.n))
      [] r.op = "DuplicateAll" -> Some(DuplicateAll(s))
      [] r.op = "SwapFront" -> SwapFront(s)
      [] r.op = "SwapBack" -> SwapBack(s)
      [] r.op = "BitwiseShiftLeft" -> BitwiseShift(s, r.n, TRUE)
      [] r.op = "BitwiseShiftRight" -> BitwiseShift(s, r.n, FALSE)
      [] r.op = "AsciiIncrement" -> Some(AsciiIncrement(s, r.n))
      [] r.op = "AsciiDecrement" -> Some(AsciiDecrement(s, r.n))
      [] r.op = "ReplaceWithNext" -> ReplaceWithNext(s, r.n)
      [] r.op = "ReplaceWithPrev" -> ReplaceWithPrev(s, r.n)
      [] r.op = "DuplicateFirstBlock" -> Some(Take(s, r.n) \o s)
      [] r.op = "DuplicateLastBlock" -> Some(s \o Skip(s, Len(s) - Min(r.n, Len(s))))

(***************************************************************************)
(* RejectRule::run: Some(input) when the word is kept, None when rejected. *)
(***************************************************************************)
Keep(c, s) == IF c THEN Some(s) ELSE None

RejectRule_run(r, s) ==
    CASE r.op = "ShorterThan" -> Keep(ByteLen(s) >= r.n, s)
      [] r.op = "LongerThan" -> Keep(ByteLen(s) <= r.n, s)
      [] r.op = "NotEqualTo" -> Keep(ByteLen(s) = r.n, s)
      [] r.op = "Contains" -> Keep(~Contains(s, r.s), s)
      [] r.op = "NotContains" -> Keep(Contains(s, r.s), s)
      [] r.op = "NotStartsWith" -> Keep(StartsWith(s, r.s), s)
      [] r.op = "NotEndsWith" -> Keep(EndsWith(s, r.s), s)
      [] r.op = "NotEqualAt" -> Keep(Take(Skip(s, r.n), ByteLen(r.s)) = r.s, s)
      [] r.op = "ContainsLessThan" -> Keep(MatchCount(s, r.s) >= r.n, s)

(***************************************************************************)
(* Rule::run and Rule::run_all.                                            *)
(***************************************************************************)
Rule_run(r, s) ==
    CASE r.kind = "NoOp" -> Some(s)
      [] r.kind = "Transform" -> TransformRule_run(r, s)
      [] r.kind = "Reject" -> RejectRule_run(r, s)
      [] r.kind = "End" -> Some(s)

\* run_all without the early return: a rejection is ignored and the loop goes on
\* with the word it had.
RECURSIVE run_all_loop_no_return(_, _, _)
run_all_loop_no_return(rs, i, cur) ==
    IF i > Len(rs) THEN [st |-> "Some", val |-> cur, ran |-> i - 1]
    ELSE LET output == Rule_run(rs[i], cur)
         IN  IF output.st = "Some" THEN run_all_loop_no_return(rs, i + 1, output.val)
             ELSE IF output.st = "None" THEN run_all_loop_no_return(rs, i + 1, cur)
             ELSE [st |-> output.st, val |-> <<>>, ran |-> i]

\* The loop of run_all from its i-th iteration (1-based) with `output` = Some(cur).
\* The value carries, beside the result, the number of rules the loop ran.
RECURSIVE run_all_loop(_, _, _)
run_all_loop(rs, i, cur) ==
    IF i > Len(rs) THEN [st |-> "Some", val |-> cur, ran |-> i - 1]
    ELSE LET output == Rule_run(rs[i], cur)
         IN  IF output.st = "Some" THEN run_all_loop(rs, i + 1, output.val)
             ELSE [st |-> output.st, val |-> <<>>, ran |-> i]

Rule_run_all(rs, s) == run_all_loop(rs, 1, s)


(***************************************************************************)
(* Rule::simplify = basic_simplify: drop every NoOp, then itertools'       *)
(* coalesce with the closure of the source.                                *)
(***************************************************************************)
Merged(r) == [ok |-> TRUE, rule |-> r]
NotMerged == [ok |-> FALSE, rule |-> NoOp]

\* The closure given to coalesce: Ok(rule) or Err((prev, current)).
\* a + &b
append_merge(a, b) == a \o b

\* Two Prepends merged in the order of the rules.
prepend_merge_in_order(a, b) == a \o b

\* b + &a
prepend_merge(a, b) == b \o a

coalesce_closure(prev, current) ==
    LET both(op) == prev.kind = "Transform" /\ current.kind = "Transform"
                    /\ prev.op = op /\ current.op = op
    IN  IF prev.kind = "NoOp" THEN Merged(current)
        ELSE IF both("Append") THEN Merged(TS("Append", append_merge(prev.s, current.s)))
        ELSE IF both("Prepend") THEN Merged(TS("Prepend", prepend_merge(prev.s, current.s)))
        ELSE IF both("DuplicateLast") THEN Merged(TN("DuplicateLast", prev.n + current.n))
        ELSE IF prev.kind = "Transform" /\ current.kind = "Transform"
                /\ prev.op = "DuplicateFirst" /\ current.op = "DuplicateLast"
             THEN Merged(TN("DuplicateFirst", prev.n + current.n))
        ELSE IF both("Lowercase") THEN Merged(T0("Lowercase"))
        ELSE IF both("Uppercase") THEN Merged(T0("Uppercase"))
        ELSE IF both("Capitalize") THEN Merged(T0("Capitalize"))
        ELSE IF both("InvertCapitalize") THEN Merged(T0("InvertCapitalize"))
        ELSE IF both("ToggleCase") /\ prev.some = current.some /\ prev.n = current.n
             THEN Merged(NoOp)
        ELSE IF both("Reverse") THEN Merged(NoOp)
        ELSE NotMerged

\* Itertools::coalesce: `last` is the pending element, `rest` what the inner
\* iterator still yields.
RECURSIVE coalesce(_, _)
coalesce(last, rest) ==
    IF rest = <<>> THEN <<last>>
    ELSE LET c == coalesce_closure(last, Head(rest))
         IN  IF c.ok THEN coalesce(c.rule, Tail(rest))
             ELSE <<last>> \o coalesce(Head(rest), Tail(rest))

IsNotNoOp(r) == r.kind # "NoOp"

basic_simplify(rs) ==
    LET kept == SelectSeq(rs, IsNotNoOp)
    IN  IF kept = <<>> THEN <<>> ELSE coalesce(Head(kept), Tail(kept))

Rule_simplify(rs) == basic_simplify(rs)

(***************************************************************************)
(* The parser (winnow combinators over &str).  Every parser returns        *)
(* [ok, val, rest]; a failure is a backtrack error, which leaves it to the *)
(* caller to reset the input.                                              *)
(***************************************************************************)
POk(v, rest) == [ok |-> TRUE, val |-> v, rest |-> rest]
PFail == [ok |-> FALSE, val |-> <<>>, rest |-> <<>>]

\* The one-character literal of a scalar (the inverse of Ord), for dispatch.
Chr(c) ==
    IF c = 10 THEN "\n"
    ELSE IF c = 9 THEN "\t"
    ELSE IF c \in 32..126 THEN Ascii[c - 31]
    ELSE "non-ascii"

IsDigit(c) == c \in 48..57

\* winnow::token::any
any(inp) == IF inp = <<>> THEN PFail ELSE POk(Head(inp), Tail(inp))

RECURSIVE Digits(_)
Digits(inp) ==
    IF inp # <<>> /\ IsDigit(Head(inp)) THEN <<Head(inp)>> \o Digits(Tail(inp)) ELSE <<>>

RECURSIVE DecValue(_)
DecValue(ds) ==
    IF ds = <<>> THEN 0 ELSE 10 * DecValue(SubSeq(ds, 1, Len(ds) - 1)) + (ds[Len(ds)] - 48)

\* winnow::ascii::dec_uint: a single '0', or a digit 1-9 followed by every digit
\* that follows.  (The model's inputs hold no integer beyond usize.)
dec_uint(inp) ==
    IF inp = <<>> \/ ~IsDigit(Head(inp)) THEN PFail
    ELSE IF Head(inp) = 48 THEN POk(0, Tail(inp))
    ELSE LET ds == Digits(inp) IN POk(DecValue(ds), Skip(inp, Len(ds)))

\* separated(2, dec_uint, ':')
range_parser_delim(inp) ==
    LET a == dec_uint(inp)
        b == dec_uint(Tail(a.rest))
    IN  IF a.ok /\ a.rest # <<>> /\ Head(a.rest) = 58 /\ b.ok
        THEN POk(<<a.val, b.val>>, b.rest)
        ELSE PFail

\* repeat(2, one_of('0'..='9'))
range_parse_raw(inp) ==
    IF Len(inp) >= 2 /\ IsDigit(inp[1]) /\ IsDigit(inp[2])
    THEN POk(<<inp[1] - 48, inp[2] - 48>>, Skip(inp, 2))
    ELSE PFail

\* alt((range_parser_delim, range_parse_raw, fail))
range_parser(inp) ==
    LET d == range_parser_delim(inp)
    IN  IF d.ok THEN d ELSE range_parse_raw(inp)

\* Parser::map
Map(p, F(_)) == IF p.ok THEN POk(F(p.val), p.rest) ELSE PFail

\* The tuple parsers (dec_uint, any), (any, dec_uint) and (any, any).
uint_any(inp) ==
    LET u == dec_uint(inp)
        a == any(u.rest)
    IN  IF u.ok /\ a.ok THEN POk(<<u.val, a.val>>, a.rest) ELSE PFail

any_uint(inp) ==
    LET a == any(inp)
        u == dec_uint(a.rest)
    IN  IF a.ok /\ u.ok THEN POk(<<a.val, u.val>>, u.rest) ELSE PFail

any_any(inp) ==
    LET a == any(inp)
        b == any(a.rest)
    IN  IF a.ok /\ b.ok THEN POk(<<a.val, b.val>>, b.rest) ELSE PFail

\* The dispatch table of parse_rule, by opcode character.
dispatch(o, r) ==
    CASE o = "#" -> POk(NoOp, <<>>)
      [] o = ":" -> POk(NoOp, r)
      [] o = "l" -> POk(T0("Lowercase"), r)
      [] o = "u" -> POk(T0("Uppercase"), r)
      [] o = "c" -> POk(T0("Capitalize"), r)
      [] o = "C" -> POk(T0("InvertCapitalize"), r)
      [] o = "t" -> POk(T0("ToggleCase"), r)
      [] o = "T" -> Map(dec_uint(r), LAMBDA n : TN("ToggleCase", n))
      [] o = "r" -> POk(T0("Reverse"), r)
      [] o = "d" -> POk(T0("Duplicate"), r)
      [] o = "p" -> Map(dec_uint(r), LAMBDA n : TN("Duplicate", n))
      [] o = "f" -> POk(T0("Reflect"), r)
      [] o = "{" -> POk(T0("RotateLeft"), r)
      [] o = "}" -> POk(T0("RotateRight"), r)
      [] o = "$" -> Map(any(r), LAMBDA c : TS("Append", <<c>>))
      [] o = "^" -> Map(any(r), LAMBDA c : TS("Prepend", <<c>>))
      [] o = "[" -> POk(T0("TruncateLeft"), r)
      [] o = "]" -> POk(T0("TruncateRight"), r)
      [] o = "D" -> Map(dec_uint(r), LAMBDA i : TN("Delete", i))
      [] o = "x" -> Map(range_parser(r), LAMBDA g : TNM("Extract", g[1], g[2]))
      [] o = "O" -> Map(range_parser(r), LAMBDA g : TNM("Omit", g[1], g[2]))
      [] o = "i" -> Map(any_uint(r), LAMBDA v : TNS("Insert", v[2], <<v[1]>>))
      [] o = "o" -> Map(uint_any(r), LAMBDA v : TNS("Overwrite", v[1], <<v[2]>>))
      [] o = "'" -> Map(dec_uint(r), LAMBDA n : TN("TruncateTo", n))
      [] o = "s" -> Map(any_any(r), LAMBDA v : TST("Replace", <<v[1]>>, <<v[2]>>))
      [] o = "@" -> Map(any(r), LAMBDA c : TS("Purge", <<c>>))
      [] o = "z" -> Map(dec_uint(r), LAMBDA n : TN("DuplicateFirst", n))
      [] o = "Z" -> Map(dec_uint(r), LAMBDA n : TN("DuplicateLast", n))
      [] o = "q" -> POk(T0("DuplicateAll"), r)
      [] o = "k" -> POk(T0("SwapFront"), r)
      [] o = "K" -> POk(T0("SwapBack"), r)
      [] o = "*" -> Map(range_parser(r), LAMBDA g : TNM("Swap", g[1], g[2]))
      [] o = "L" -> Map(dec_uint(r), LAMBDA i : TN("BitwiseShiftLeft", i))
      [] o = "R" -> Map(dec_uint(r), LAMBDA i : TN("BitwiseShiftRight", i))
      [] o = "+" -> Map(dec_uint(r), LAMBDA i : TN("AsciiIncrement", i))
      [] o = "-" -> Map(dec_uint(r), LAMBDA i : TN("AsciiDecrement", i))
      [] o = "." -> Map(dec_uint(r), LAMBDA i : TN("ReplaceWithNext", i))
      [] o = "," -> Map(dec_uint(r), LAMBDA i : TN("ReplaceWithPrev", i))
      [] o = "y" -> Map(dec_uint(r), LAMBDA n : TN("DuplicateFirstBlock", n))
      [] o = "Y" -> Map(dec_uint(r), LAMBDA n : TN("DuplicateLastBlock", n))
      [] o = "<" -> Map(dec_uint(r), LAMBDA n : RN("LongerThan", n))
      [] o = ">" -> Map(dec_uint(r), LAMBDA n : RN("ShorterThan", n))
      [] o = "_" -> Map(dec_uint(r), LAMBDA n : RN("NotEqualTo", n))
      [] o = "!" -> Map(any(r), LAMBDA c : RS("Contains", <<c>>))
      [] o = "/" -> Map(any(r), LAMBDA c : RS("NotContains", <<c>>))
      [] o = "(" -> Map(any(r), LAMBDA c : RS("NotStartsWith", <<c>>))
      [] o = ")" -> Map(any(r), LAMBDA c : RS("NotEndsWith", <<c>>))
      [] o = "=" -> Map(uint_any(r), LAMBDA v : RNS("NotEqualAt", v[1], <<v[2]>>))
      [] o = "%" -> Map(uint_any(r), LAMBDA v : RNS("ContainsLessThan", v[1], <<v[2]>>))
      [] OTHER -> PFail

\* parse_rule with the arms of '<' and '>' exchanged.
parse_rule_swapped(inp) ==
    IF inp = <<>> THEN PFail
    ELSE LET o == Chr(Head(inp))
         IN  dispatch(IF o = "<" THEN ">" ELSE IF o = ">" THEN "<" ELSE o, Tail(inp))

\* parse_rule: dispatch! { any; ... }
parse_rule(inp) ==
    IF inp = <<>> THEN PFail ELSE dispatch(Chr(Head(inp)), Tail(inp))

\* repeat(0.., parse_rule): stops at the first backtrack error, with the input
\* reset to where the failing rule began.
RECURSIVE repeat_parse_rule(_, _)
repeat_accumulate(p, inp, acc) ==
    IF p.ok THEN repeat_parse_rule(p.rest, Append(acc, p.val))
    ELSE [val |-> acc, rest |-> inp]

repeat_parse_rule(inp, acc) == repeat_accumulate(parse_rule(inp), inp, acc)

\* parse_line: terminated(repeat(0.., parse_rule), alt((literal('\n'), eof))).
\* On an error, rest is where the terminator was expected.
terminated(q) ==
    IF q.rest # <<>> /\ Head(q.rest) = 10 THEN POk(q.val, Tail(q.rest))
    ELSE IF q.rest = <<>> THEN POk(q.val, <<>>)
    ELSE [ok |-> FALSE, val |-> <<>>, rest |-> q.rest]

parse_line(inp) == terminated(repeat_parse_rule(inp, <<>>))


(***************************************************************************)
(* Inputs of the model.                                                    *)
(***************************************************************************)
\* Every sequence over S of length at most n.
BSeq(S, n) == UNION {[1..k -> S] : k \in 0..n}

\* Rule lines of the batch driver: a blank line, a line that fails to parse,
\* a transform, and lines mixing a reject rule with Truncate(Right).
Lines ==
    { Str(<<>>),
      Str(<<"x">>),
      Str(<<"$", "1">>),
      Str(<<">", "1", "]">>),
      Str(<<"]", ">", "1">>) }

Words == { Str(<<>>), Str(<<"a">>), Str(<<"b", "a">>), <<NON_ASCII>> }

\* One line per reject opcode of test_reject_rules, and an opcode without operand.
RejectLines ==
    { Str(<<"<", "1">>), Str(<<">", "1">>), Str(<<"_", "1">>), Str(<<"!", "a">>),
      Str(<<"/", "a">>), Str(<<"(", "a">>), Str(<<")", "a">>), Str(<<"<">>) }

RejectWords == { Str(<<>>), Str(<<"a">>), Str(<<"a", "b">>), Str(<<"b", "a">>) }

\* The lines of test_error_handling.
InvalidLines == { Str(<<"#">>), Str(<<"x">>), Str(<<"T">>) }

InvalidWords == { Str(<<>>), Str(<<"a">>), Str(<<"p", "a", "s", "s", "w", "o", "r", "d">>) }

CaseLines ==
    { Str(<<"l">>), Str(<<"u">>), Str(<<"c">>), Str(<<"C">>), Str(<<"t">>), Str(<<"T">>),
      Str(<<"l", "u">>), Str(<<"l", "u", "\n", "c">>) }
CaseWords ==
    { Str(<<>>), Str(<<"H", "e", "L", "L", "o">>),
      Str(<<"p", "@", "s", "s", "W", "0", "r", "d">>) }

\* The arguments of repeated calls of run: a line that parses and one that does not.
BatchLines == { Str(<<"c">>), Str(<<"x">>) }
BatchWords == { Str(<<"a">>), Str(<<"b", "a">>) }

(***************************************************************************)
(* engine::run.                                                            *)
(***************************************************************************)
Pending == [st |-> "Pending", val |-> <<>>, ran |-> 0]

\* A collect that appends the results as the workers finish them.
RECURSIVE collect_in_order(_, _)
collect_in_order(res, order) ==
    IF order = <<>> THEN <<>>
    ELSE (IF res[Head(order)].st = "Some" THEN <<res[Head(order)].val>> ELSE <<>>)
         \o collect_in_order(res, Tail(order))

\* words.par_iter().filter_map(..).collect(): an indexed parallel iterator
\* collects in the order of the items, whatever the order `order` in which the
\* workers finished them.
RECURSIVE collect_from(_, _)
collect_from(res, i) ==
    IF i > Len(res) THEN <<>>
    ELSE (IF res[i].st = "Some" THEN <<res[i].val>> ELSE <<>>) \o collect_from(res, i + 1)

par_filter_map_collect(res, order) == collect_from(res, 1)

\* An Err arm that returns from run at the first line that fails to parse.
after_parse_error_return == "done"

\* The Err arm of the match on parse_line: print the error and go on with the
\* next rule line.
after_parse_error == "loop"

EngineInit(L, W, maxLines) ==
    /\ overflow_checks \in BOOLEAN
    /\ rules \in BSeq(L, maxLines)
    /\ words \in BSeq(W, MaxWords)
    /\ pc = "loop"
    /\ element = 0
    /\ rules_slice = <<>>
    /\ finished = <<>>
    /\ results = <<>>
    /\ thread_results = <<>>
    /\ output_array = <<>>
    /\ returned = <<>>

EngineIdle ==
    /\ rules = <<>> /\ words = <<>> /\ pc = "idle" /\ element = 0
    /\ rules_slice = <<>> /\ finished = <<>> /\ results = <<>>
    /\ thread_results = <<>> /\ output_array = <<>> /\ returned = <<>>

ParserIdle == input = <<>> /\ ppc = "idle" /\ calls = <<>>

EvalIdle ==
    /\ ev_rules = <<>> /\ ev_word = <<>> /\ ev_pc = "idle" /\ ev_each = <<>>
    /\ ev_direct = None /\ ev_simplified = <<>> /\ ev_via = None

engine_vars == <<rules, words, pc, element, rules_slice, finished, results,
                 thread_results, output_array, returned>>
parser_vars == <<input, ppc, calls>>
eval_vars == <<ev_rules, ev_word, ev_pc, ev_each, ev_direct, ev_simplified, ev_via>>

\* for element in rules.iter(): parse_line is Ok; simplify, and fan out over words.
ParseOk ==
    /\ pc = "loop"
    /\ element < Len(rules)
    /\ \E p \in {parse_line(rules[element + 1])} :
           /\ p.ok
           /\ rules_slice' = Rule_simplify(p.val)
    /\ element' = element + 1
    /\ results' = [i \in 1..Len(words) |-> Pending]
    /\ finished' = <<>>
    /\ pc' = "par"
    /\ UNCHANGED <<overflow_checks, rules, words, thread_results, output_array,
                   returned, parser_vars,
                   eval_vars>>

\* An Err arm that goes on to extend the output with the thread_results of the
\* line before.
ParseErr_extends ==
    /\ pc = "loop"
    /\ element < Len(rules)
    /\ ~parse_line(rules[element + 1]).ok
    /\ element' = element + 1
    /\ pc' = "extend"
    /\ UNCHANGED <<overflow_checks, rules, words, rules_slice, finished, results,
                   thread_results, output_array, returned, parser_vars, eval_vars>>

\* for element in rules.iter(): parse_line is Err.
ParseErr ==
    /\ pc = "loop"
    /\ element < Len(rules)
    /\ ~parse_line(rules[element + 1]).ok
    /\ element' = element + 1
    /\ pc' = after_parse_error
    /\ UNCHANGED <<overflow_checks, rules, words, rules_slice, finished, results,
                   thread_results, output_array, returned, parser_vars,
                   eval_vars>>

\* A worker runs the filter_map closure on words[i].  A panic of the closure
\* unwinds through collect() and out of run.
Worker(i) ==
    /\ pc = "par"
    /\ results[i] = Pending
    /\ LET r == Rule_run_all(rules_slice, words[i])
       IN  IF r.st = "Panic"
           THEN pc' = "panicked" /\ UNCHANGED <<finished, results>>
           ELSE /\ results' = [results EXCEPT ![i] = r]
                /\ finished' = Append(finished, i)
                /\ pc' = pc
    /\ UNCHANGED <<overflow_checks, rules, words, element, rules_slice, thread_results,
                   output_array, returned, parser_vars,
                   eval_vars>>

\* The join of the parallel iterator: collect() returns thread_results.
Collect ==
    /\ pc = "par"
    /\ \A i \in 1..Len(words) : results[i] # Pending
    /\ thread_results' = par_filter_map_collect(results, finished)
    /\ pc' = "extend"
    /\ UNCHANGED <<overflow_checks, rules, words, element, rules_slice, finished, results,
                   output_array, returned, parser_vars,
                   eval_vars>>

\* output_array.extend(thread_results)
Extend ==
    /\ pc = "extend"
    /\ output_array' = output_array \o thread_results
    /\ pc' = "loop"
    /\ UNCHANGED <<overflow_checks, rules, words, element, rules_slice, finished, results,
                   thread_results, returned, parser_vars,
                   eval_vars>>

\* Ok(output_array)
Return ==
    /\ pc = "loop"
    /\ element = Len(rules)
    /\ pc' = "done"
    /\ returned' = Append(returned, [rules |-> rules, words |-> words,
                                     order |-> finished, output |-> output_array])
    /\ UNCHANGED <<overflow_checks, rules, words, element, rules_slice, finished, results,
                   thread_results, output_array, parser_vars, eval_vars>>

\* An output Vec that outlives the call.
kept_output_array == output_array

\* let mut output_array: Vec<String> = Vec::new();
new_output_array == <<>>

\* A further call of run, after the one before returned.
RunAgain ==
    /\ pc = "done"
    /\ Len(returned) < MaxRuns
    /\ rules' \in BSeq(BatchLines, 1)
    /\ words' \in BSeq(BatchWords, MaxWords)
    /\ output_array' = new_output_array
    /\ pc' = "loop"
    /\ element' = 0
    /\ UNCHANGED <<overflow_checks, rules_slice, finished, results, thread_results,
                   returned, parser_vars, eval_vars>>

Next ==
    \/ ParseOk
    \/ ParseErr
    \/ \E i \in 1..Len(words) : Worker(i)
    \/ Collect
    \/ Extend
    \/ Return

Init == EngineInit(Lines, Words, MaxLines) /\ ParserIdle /\ EvalIdle
Spec == Init /\ [][Next]_vars

InitReject == EngineInit(RejectLines, RejectWords, MaxLines) /\ ParserIdle /\ EvalIdle
SpecReject == InitReject /\ [][Next]_vars

InitInvalid == EngineInit(InvalidLines, InvalidWords, MaxLines) /\ ParserIdle /\ EvalIdle
SpecInvalid == InitInvalid /\ [][Next]_vars

\* run over the lines of test_basic_transform_rules, the two lines of the text
\* of parse_multiple_lines (and that text as one element), and `T`.
InitCase == EngineInit(CaseLines, CaseWords, MaxLines) /\ ParserIdle /\ EvalIdle
SpecCase == InitCase /\ [][Next]_vars

\* Several calls of run, one after the other, in one process.
InitBatches == EngineInit(BatchLines, BatchWords, 1) /\ ParserIdle /\ EvalIdle
NextBatches == Next \/ RunAgain
SpecBatches == InitBatches /\ [][NextBatches]_vars


(***************************************************************************)
(* Successive calls of parse_line on one `&mut &str`, as in                *)
(* parse_multiple_lines.                                                   *)
(***************************************************************************)
ParseAlphabet ==
    { Ord("l"), Ord("u"), Ord("c"), Ord("$"), Ord("T"), Ord("x"), Ord("1"), Ord(":"),
      Ord("#"), Ord("|"), Ord(" "), Ord("\t"), Ord("\n"), NON_ASCII }

InitParse ==
    /\ overflow_checks \in BOOLEAN
    /\ input \in BSeq(ParseAlphabet, MaxInput)
    /\ ppc = "ready"
    /\ calls = <<>>
    /\ EngineIdle /\ EvalIdle

\* parse_line(&mut input) returns Ok(rules), the input advanced past what it consumed.
CallOk ==
    /\ ppc = "ready"
    /\ Len(calls) < MaxCalls
    /\ \E p \in {parse_line(input)} :
           /\ p.ok
           /\ calls' = Append(calls, [before |-> input, ok |-> TRUE, val |-> p.val,
                                      after |-> p.rest])
           /\ input' = p.rest
    /\ UNCHANGED <<overflow_checks, ppc, engine_vars, eval_vars>>

\* parse_line(&mut input) returns Err.
CallErr ==
    /\ ppc = "ready"
    /\ Len(calls) < MaxCalls
    /\ \E p \in {parse_line(input)} :
           /\ ~p.ok
           /\ calls' = Append(calls, [before |-> input, ok |-> FALSE, val |-> <<>>,
                                      after |-> p.rest])
           /\ input' = p.rest
    /\ ppc' = "failed"
    /\ UNCHANGED <<overflow_checks, engine_vars, eval_vars>>

NextParse == CallOk \/ CallErr
SpecParse == InitParse /\ [][NextParse]_vars

\* parse_line on the texts of parse_range_based_rules, parse_multi_digit_ranges
\* and parse_multi_digit_ranges_without_separator: range opcodes, digits, ':'.
RangeAlphabet == { Ord("x"), Ord("O"), Ord("*"), Ord("0"), Ord("1"), Ord("5"), Ord(":") }

InitRange ==
    /\ overflow_checks \in BOOLEAN
    /\ input \in BSeq(RangeAlphabet, MaxRangeInput)
    /\ ppc = "ready"
    /\ calls = <<>>
    /\ EngineIdle /\ EvalIdle

SpecRange == InitRange /\ [][NextParse]_vars

(***************************************************************************)
(* The evaluator and the simplifier applied to an IR sequence and a word.  *)
(***************************************************************************)
Operands == {0, 1, 3, 8, 255}
Positions == {0, 1, 3}
Strings == { Str(<<>>), Str(<<"a">>), Str(<<"a", "b">>), <<NON_ASCII>> }
Chars == { Str(<<"a">>), Str(<<"b">>), <<NON_ASCII>> }

TransformRules ==
    { T0(op) : op \in {"Lowercase", "Uppercase", "Capitalize", "InvertCapitalize",
                       "ToggleCase", "Reverse", "Duplicate", "Reflect", "RotateLeft",
                       "RotateRight", "TruncateLeft", "TruncateRight", "DuplicateAll",
                       "SwapFront", "SwapBack"} }
    \cup { TN(op, n) : op \in {"ToggleCase", "Duplicate", "Delete", "TruncateTo",
                               "DuplicateFirst", "DuplicateLast", "BitwiseShiftLeft",
                               "BitwiseShiftRight", "AsciiIncrement", "AsciiDecrement",
                               "ReplaceWithNext", "ReplaceWithPrev",
                               "DuplicateFirstBlock", "DuplicateLastBlock"},
                       n \in Operands }
    \cup { TNM(op, n, m) : op \in {"Extract", "Omit", "Swap"}, n \in Positions,
                           m \in Positions }
    \cup { TS(op, x) : op \in {"Append", "Prepend", "Purge"}, x \in Strings }
    \cup { TNS(op, n, x) : op \in {"Insert", "Overwrite"}, n \in Positions, x \in Chars }
    \cup { TST("Replace", x, y) : x \in Strings, y \in Strings }

RejectRules ==
    { RN(op, n) : op \in {"ShorterThan", "LongerThan", "NotEqualTo"}, n \in Positions }
    \cup { RS(op, x) : op \in {"Contains", "NotContains", "NotStartsWith", "NotEndsWith"},
                       x \in Strings }
    \cup { RNS(op, n, x) : op \in {"NotEqualAt", "ContainsLessThan"}, n \in Positions,
                           x \in Chars \cup {Str(<<"a", "b">>)} }

AllRules == {NoOp, End} \cup TransformRules \cup RejectRules

\* The rules the closure of basic_simplify rewrites, a reject rule and a
\* transform it leaves alone.
SeqRules ==
    { NoOp, T0("Lowercase"), T0("Capitalize"), T0("ToggleCase"), TN("ToggleCase", 0),
      T0("Reverse"), TS("Append", Str(<<"a">>)), TS("Prepend", Str(<<"b">>)),
      TN("DuplicateFirst", 1), TN("DuplicateLast", 1), RN("ShorterThan", 1),
      T0("RotateLeft") }

EvalWords ==
    { Str(<<>>), Str(<<"a">>), Str(<<"b", "a">>), Str(<<"A", "b">>), Str(<<"a", "a", "b">>),
      <<NON_ASCII, Ord("a")>> }

InitEval ==
    /\ overflow_checks \in BOOLEAN
    /\ ev_rules \in {<<r>> : r \in AllRules} \cup BSeq(SeqRules, MaxRules)
    /\ ev_word \in EvalWords
    /\ ev_pc = "start"
    /\ ev_each = <<>>
    /\ ev_direct = None
    /\ ev_simplified = <<>>
    /\ ev_via = None
    /\ EngineIdle /\ ParserIdle

\* Only the Option<String> of a run_all value.
AsOption(r) == [st |-> r.st, val |-> r.val]

\* Rule::run of every rule on the word, and Rule::run_all of the sequence.
EvalRun ==
    /\ ev_pc = "start"
    /\ ev_each' = [i \in 1..Len(ev_rules) |-> Rule_run(ev_rules[i], ev_word)]
    /\ ev_direct' = AsOption(Rule_run_all(ev_rules, ev_word))
    /\ ev_pc' = "ran"
    /\ UNCHANGED <<overflow_checks, ev_rules, ev_word, ev_simplified, ev_via,
                   engine_vars, parser_vars>>

\* Rule::simplify, and Rule::run_all of the simplified sequence (as engine::run does).
EvalSimplified ==
    /\ ev_pc = "ran"
    /\ ev_simplified' = Rule_simplify(ev_rules)
    /\ ev_via' = AsOption(Rule_run_all(Rule_simplify(ev_rules), ev_word))
    /\ ev_pc' = "done"
    /\ UNCHANGED <<overflow_checks, ev_rules, ev_word, ev_each, ev_direct,
                   engine_vars, parser_vars>>

NextEval == EvalRun \/ EvalSimplified
SpecEval == InitEval /\ [][NextEval]_vars

\* The case rules and Reverse, on words with scalars whose case mapping is not
\* one to one (U+00DF, U+00B5).
CaseRules ==
    { T0("Lowercase"), T0("Uppercase"), T0("Capitalize"), T0("InvertCapitalize"),
      T0("ToggleCase"), TN("ToggleCase", 0), TN("ToggleCase", 1), TN("ToggleCase", 3),
      T0("Reverse") }

UnicodeWords ==
    { Str(<<>>), Str(<<"A", "b">>), Str(<<"a", "B", "1", "c">>), <<223>>, <<97, 223>>,
      <<181, 65>>, <<NON_ASCII, Ord("a")>> }

InitTwice ==
    /\ overflow_checks \in BOOLEAN
    /\ ev_rules \in BSeq(CaseRules, MaxRules)
    /\ ev_word \in UnicodeWords
    /\ ev_pc = "start"
    /\ ev_each = <<>>
    /\ ev_direct = None
    /\ ev_simplified = <<>>
    /\ ev_via = None
    /\ EngineIdle /\ ParserIdle

SpecTwice == InitTwice /\ [][NextEval]_vars

\* Sequences of Append and Prepend rules with different strings, and a rule
\* basic_simplify leaves alone.
MergeRules ==
    { TS("Append", Str(<<"a">>)), TS("Append", Str(<<"b">>)), TS("Prepend", Str(<<"a">>)),
      TS("Prepend", Str(<<"b">>)), T0("Reflect") }

InitMerge ==
    /\ overflow_checks \in BOOLEAN
    /\ ev_rules \in BSeq(MergeRules, MaxRules)
    /\ ev_word \in EvalWords
    /\ ev_pc = "start"
    /\ ev_each = <<>>
    /\ ev_direct = None
    /\ ev_simplified = <<>>
    /\ ev_via = None
    /\ EngineIdle /\ ParserIdle

SpecMerge == InitMerge /\ [][NextEval]_vars


(***************************************************************************)
(* Properties.                                                             *)
(***************************************************************************)

\* C1: simplify preserves semantics: run_all of the simplified sequence gives,
\* on every word, the same Option<String> as run_all of the sequence itself.
C1_SimplifyPreservesSemantics == ev_pc = "done" => ev_via = ev_direct

\* C4: the evaluator is total: Rule::run of any rule and Rule::run_all of any
\* sequence return Some or None on every word, and never panic.
C4_EvaluatorTotal ==
    ev_pc # "start" =>
        /\ ev_direct.st # "Panic"
        /\ \A i \in 1..Len(ev_rules) : ev_each[i].st # "Panic"

\* The rejecting predicate of each RejectRule variant, as the data model states
\* it: lengths of the word in bytes, positions and substrings in characters.
OccursAt(s, x, n) == \A j \in 1..Len(x) : n + j <= Len(s) /\ s[n + j] = x[j]
Occurrences(s, x) == {n \in 0..Len(s) : OccursAt(s, x, n)}
NonOverlapping(P, x) == \A p \in P : \A q \in P : p < q => q - p >= Len(x)
NonOverlappingCount(s, x) ==
    LET sizes == {Cardinality(P) : P \in {Q \in SUBSET Occurrences(s, x) : NonOverlapping(Q, x)}}
    IN  CHOOSE k \in sizes : \A m \in sizes : m <= k

RejectingPredicate(r, s) ==
    CASE r.op = "ShorterThan" -> ByteLen(s) < r.n
      [] r.op = "LongerThan" -> ByteLen(s) > r.n
      [] r.op = "NotEqualTo" -> ByteLen(s) # r.n
      [] r.op = "Contains" -> Occurrences(s, r.s) # {}
      [] r.op = "NotContains" -> Occurrences(s, r.s) = {}
      [] r.op = "NotStartsWith" -> ~OccursAt(s, r.s, 0)
      [] r.op = "NotEndsWith" -> Len(r.s) > Len(s) \/ ~OccursAt(s, r.s, Len(s) - Len(r.s))
      [] r.op = "NotEqualAt" -> ~OccursAt(s, r.s, r.n)
      [] r.op = "ContainsLessThan" -> NonOverlappingCount(s, r.s) < r.n

RejectAsStated(i) ==
    /\ ev_each[i] \in {None, Some(ev_word)}
    /\ ev_each[i] = None <=> RejectingPredicate(ev_rules[i], ev_word)

\* C6: RejectRule::run returns None or Some of exactly the input, and None
\* exactly when the rejecting predicate of the variant holds.
C6_RejectPredicates ==
    ev_pc # "start" =>
        \A i \in 1..Len(ev_rules) : ev_rules[i].kind = "Reject" => RejectAsStated(i)


(***************************************************************************)
(* The sequential reference of engine::run: rule lines in order, and for   *)
(* each line that parses the words in order.                               *)
(***************************************************************************)
RECURSIVE Concat(_)
Concat(ss) == IF ss = <<>> THEN <<>> ELSE Head(ss) \o Concat(Tail(ss))

SeqWord(rs, w) ==
    LET r == Rule_run_all(rs, w) IN IF r.st = "Some" THEN <<r.val>> ELSE <<>>

SeqLine(l, ws) ==
    LET p == parse_line(l)
    IN  IF p.ok THEN Concat([i \in 1..Len(ws) |-> SeqWord(Rule_simplify(p.val), ws[i])])
        ELSE <<>>

SeqRun(ls, ws) == Concat([k \in 1..Len(ls) |-> SeqLine(ls[k], ws)])

\* The rule lines run has dealt with completely.
LinesDone == IF pc \in {"par", "extend", "panicked"} THEN element - 1 ELSE element

\* C2: whatever the order in which the workers finish, the output of run is the
\* sequential reference: line by line, and within a line in word order.
C2_OutputIsSequential ==
    /\ output_array = SeqRun(SubSeq(rules, 1, LinesDone), words)
    /\ pc = "extend" => thread_results = SeqLine(rules[element], words)
    /\ pc = "done" => output_array = SeqRun(rules, words)

C2_Witness ==
    /\ pc = "done"
    /\ finished = <<2, 1>>
    /\ Len(output_array) >= 4
    /\ output_array[Len(output_array) - 1] # output_array[Len(output_array)]

ParsesOk(l) == parse_line(l).ok

\* C3: a rule line that fails to parse is skipped and run goes on: it returns
\* only after the last line, and its output is that of the batch without the
\* lines that fail to parse.
C3_ParseErrorSkipped ==
    /\ (element > 0 /\ ~ParsesOk(rules[element])) => pc \in {"loop", "done"}
    /\ pc = "done" =>
          /\ element = Len(rules)
          /\ output_array = SeqRun(SelectSeq(rules, ParsesOk), words)

C3_Witness ==
    /\ pc = "done"
    /\ Len(rules) = 2
    /\ ~ParsesOk(rules[1])
    /\ ParsesOk(rules[2])
    /\ output_array # <<>>

\* The word the first k rules produce, and the value of the k-th rule on the
\* word the rules before it produce.
RECURSIVE WordAfter(_, _, _)
WordAfter(rs, s, k) == IF k = 0 THEN s ELSE Rule_run(rs[k], WordAfter(rs, s, k - 1)).val

StepAt(rs, s, k) == Rule_run(rs[k], WordAfter(rs, s, k - 1))

FirstNoneAt(rs, s, k) ==
    /\ k \in 1..Len(rs)
    /\ \A j \in 1..(k - 1) : StepAt(rs, s, j).st = "Some"
    /\ StepAt(rs, s, k).st = "None"

FoldedLeft(rs, s, r) ==
    /\ r.st = "None" <=> \E k \in 1..Len(rs) : FirstNoneAt(rs, s, k)
    /\ r.st = "None" => FirstNoneAt(rs, s, r.ran)
    /\ r.st = "Some" => r.ran = Len(rs) /\ r.val = WordAfter(rs, s, Len(rs))
    /\ rs = <<>> => r.st = "Some" /\ r.val = s

\* C5: run_all folds the rules left to right and returns None at the first rule
\* that returns None, without running the rules after it; a rejected word adds
\* no element to the output, and an empty rule sequence returns the word.
C5_FoldShortCircuits ==
    /\ pc \in {"par", "extend"} =>
          \A i \in 1..Len(words) :
              results[i] # Pending => FoldedLeft(rules_slice, words[i], results[i])
    /\ pc = "extend" =>
          Len(thread_results) = Cardinality({i \in 1..Len(words) : results[i].st = "Some"})

C5_Witness ==
    /\ pc = "extend"
    /\ \E i \in 1..Len(words) :
          results[i].st = "None" /\ results[i].ran < Len(rules_slice)
    /\ \E i \in 1..Len(words) :
          results[i].st = "Some" /\ results[i].val # words[i]
    /\ Len(thread_results) < Len(words)

\* The words an opcode of test_reject_rules keeps, by the opcode character and
\* its operand (lengths in bytes).
HasChar(w, c) == \E i \in 1..Len(w) : w[i] = c

KeptBy(o, x, w) ==
    CASE o = "<" -> ByteLen(w) <= x - 48
      [] o = ">" -> ByteLen(w) >= x - 48
      [] o = "_" -> ByteLen(w) = x - 48
      [] o = "!" -> ~HasChar(w, x)
      [] o = "/" -> HasChar(w, x)
      [] o = "(" -> w # <<>> /\ w[1] = x
      [] o = ")" -> w # <<>> /\ w[Len(w)] = x

ParsedVariant(o) ==
    CASE o = "<" -> "LongerThan"
      [] o = ">" -> "ShorterThan"
      [] o = "_" -> "NotEqualTo"
      [] o = "!" -> "Contains"
      [] o = "/" -> "NotContains"
      [] o = "(" -> "NotStartsWith"
      [] o = ")" -> "NotEndsWith"

\* C7: through parse_line and run, each reject opcode keeps exactly the words
\* of its rule-file meaning, unchanged and in input order; `<N` is
\* LongerThan(N) and `>N` is ShorterThan(N).
C7_RejectOpcodes ==
    (pc = "extend" /\ Len(rules[element]) = 2) =>
        LET o == Chr(rules[element][1])
            x == rules[element][2]
            kept(w) == KeptBy(o, x, w)
        IN  /\ thread_results = SelectSeq(words, kept)
            /\ Len(rules_slice) = 1
            /\ rules_slice[1].kind = "Reject"
            /\ rules_slice[1].op = ParsedVariant(o)

C7_Witness ==
    /\ pc = "extend"
    /\ rules[element] = Str(<<"<", "1">>)
    /\ words = <<Str(<<"a", "b">>), Str(<<"a">>)>>
    /\ thread_results = <<Str(<<"a">>)>>

\* C10: each of the lines `#`, `x` and `T` is invalid, so a batch made only of
\* them has an empty output for any list of words.
C10_InvalidLinesGiveNothing == pc = "done" => output_array = <<>>

\* The characters of the input before its first newline.
RECURSIVE FirstLine(_)
FirstLine(inp) ==
    IF inp = <<>> \/ Head(inp) = 10 THEN <<>> ELSE <<Head(inp)>> \o FirstLine(Tail(inp))

\* C8: a successful parse_line returns the rules of the characters before the
\* first newline only, and consumes them and that newline and nothing more.
C8_OneLineOnly ==
    \A k \in 1..Len(calls) :
        calls[k].ok =>
            LET line == FirstLine(calls[k].before)
                nl == IF Len(line) < Len(calls[k].before) THEN 1 ELSE 0
            IN  /\ calls[k].after = Skip(calls[k].before, Len(line) + nl)
                /\ parse_line(line).ok
                /\ parse_line(line).val = calls[k].val

\* C9: when the rules of a line cannot be parsed up to the end of the line (a
\* character that is no opcode, or an operand that is missing or malformed),
\* parse_line is an error, and an error carries no rules.
C9_BadLineFails ==
    \A k \in 1..Len(calls) :
        LET line == FirstLine(calls[k].before)
        IN  /\ repeat_parse_rule(line, <<>>).rest # <<>> => ~calls[k].ok
            /\ ~calls[k].ok => calls[k].val = <<>>

(***************************************************************************)
(* The <range> operand as stated: `N:M` with N and M maximal runs of       *)
(* decimal digits, otherwise exactly two digits.                           *)
(***************************************************************************)
RangeAsStated(r) ==
    LET n == Digits(r)
        afterN == Skip(r, Len(n))
        m == IF afterN # <<>> /\ Head(afterN) = 58 THEN Digits(Tail(afterN)) ELSE <<>>
    IN  IF n # <<>> /\ m # <<>>
        THEN POk(<<DecValue(n), DecValue(m)>>, Skip(r, Len(n) + 1 + Len(m)))
        ELSE IF Len(r) >= 2 /\ IsDigit(r[1]) /\ IsDigit(r[2])
        THEN POk(<<r[1] - 48, r[2] - 48>>, Skip(r, 2))
        ELSE PFail

RangeVariant(c) ==
    CASE c = Ord("x") -> "Extract" [] c = Ord("O") -> "Omit" [] c = Ord("*") -> "Swap"

RangeCallAsStated(c) ==
    (c.before # <<>> /\ Head(c.before) \in {Ord("x"), Ord("O"), Ord("*")}) =>
        LET g == RangeAsStated(Tail(c.before))
            rule == TNM(RangeVariant(Head(c.before)), g.val[1], g.val[2])
        IN  /\ ~g.ok => ~c.ok
            /\ (g.ok /\ c.ok) => c.val[1] = rule
            /\ (g.ok /\ g.rest = <<>>) => (c.ok /\ c.val = <<rule>>)

\* C11: a range operand is the delimited form N:M, N and M maximal decimal
\* integers, when the text matches it, and otherwise exactly two digits.
C11_RangeOperand == \A k \in 1..Len(calls) : RangeCallAsStated(calls[k])

(***************************************************************************)
(* Single transform rules on a word (the evaluator machine at "ran").      *)
(***************************************************************************)
SingleRule(ops) == ev_pc # "start" /\ Len(ev_rules) = 1 /\ ev_rules[1].op \in ops

\* out is k copies of w, one after the other.
IsCopies(out, w, k) ==
    /\ Len(out) = k * Len(w)
    /\ \A j \in 0..(k - 1) : SubSeq(out, j * Len(w) + 1, (j + 1) * Len(w)) = w

DuplicateTotal(r) == IF r.some THEN r.n + 1 ELSE 2

\* C12: `d` returns the word 2 times in total and `pN` returns it N + 1 times.
C12_DuplicateCopies ==
    SingleRule({"Duplicate"}) =>
        /\ ev_direct.st = "Some"
        /\ IsCopies(ev_direct.val, ev_word, DuplicateTotal(ev_rules[1]))

C12_Witness ==
    /\ SingleRule({"Duplicate"})
    /\ ev_rules[1].some /\ ev_rules[1].n = 3
    /\ ev_word = Str(<<"a", "a", "b">>)
    /\ Len(ev_direct.val) = 12

\* C13 as stated: the output of Duplicate(n) has (2 + (n ?? 1)) * len(s) bytes.
C13_LengthAsStated ==
    SingleRule({"Duplicate"}) =>
        ByteLen(ev_direct.val)
            = (2 + (IF ev_rules[1].some THEN ev_rules[1].n ELSE 1)) * ByteLen(ev_word)

\* C13, amended: the output of Duplicate(n) has (1 + (n ?? 1)) * len(s) bytes.
C13_Length ==
    SingleRule({"Duplicate"}) =>
        ByteLen(ev_direct.val)
            = (1 + (IF ev_rules[1].some THEN ev_rules[1].n ELSE 1)) * ByteLen(ev_word)

C13_Witness ==
    /\ SingleRule({"Duplicate"})
    /\ ~ev_rules[1].some
    /\ ev_word = <<NON_ASCII, Ord("a")>>
    /\ ByteLen(ev_direct.val) = 6

\* C14: Rotate on the empty word, and SwapFront or SwapBack on a word of fewer
\* than 2 characters, return the word unchanged.
C14_TooShortUnchanged ==
    /\ (SingleRule({"RotateLeft", "RotateRight"}) /\ ev_word = <<>>)
          => ev_direct = Some(ev_word)
    /\ (SingleRule({"SwapFront", "SwapBack"}) /\ Len(ev_word) < 2)
          => ev_direct = Some(ev_word)

\* C20: counted in characters, Truncate(Left) drops the first character,
\* Truncate(Right) the last, and Truncate(To(n)) keeps the first n.
C20_TruncateByChars ==
    /\ SingleRule({"TruncateLeft"}) => ev_direct = Some(SubSeq(ev_word, 2, Len(ev_word)))
    /\ SingleRule({"TruncateRight"}) => ev_direct = Some(SubSeq(ev_word, 1, Len(ev_word) - 1))
    /\ SingleRule({"TruncateTo"}) =>
          ev_direct = Some(SubSeq(ev_word, 1, Min(ev_rules[1].n, Len(ev_word))))

\* C15: two calls of run with the same rule lines and the same words return the
\* same output, whatever the order in which the workers finished and whatever
\* calls came before.
C15_Deterministic ==
    \A a, b \in 1..Len(returned) :
        (returned[a].rules = returned[b].rules /\ returned[a].words = returned[b].words)
            => returned[a].output = returned[b].output

C15_Witness ==
    /\ Len(returned) = 2
    /\ returned[1].rules = returned[2].rules
    /\ returned[1].words = returned[2].words
    /\ returned[1].order = <<1, 2>>
    /\ returned[2].order = <<2, 1>>
    /\ Len(returned[2].output) = 2
    /\ returned[2].output[1] # returned[2].output[2]

\* The same rule twice, evaluated.
Twice(ops) ==
    /\ ev_pc # "start"
    /\ Len(ev_rules) = 2
    /\ ev_rules[1] = ev_rules[2]
    /\ ev_rules[1].op \in ops

\* C16: Reverse twice and ToggleCase(n) twice return the word; Lowercase,
\* Uppercase, Capitalize and InvertCapitalize twice give what once gives.
C16_InvolutionsAndIdempotence ==
    /\ Twice({"Reverse", "ToggleCase"}) => ev_direct = Some(ev_word)
    /\ Twice({"Lowercase", "Uppercase", "Capitalize", "InvertCapitalize"})
          => ev_direct = ev_each[1]

\* The word a case line of test_basic_transform_rules gives, as stated.
CaseFolded(o, w) ==
    CASE o = "l" -> str_to_lowercase(w)
      [] o = "u" -> str_to_uppercase(w)
      [] o = "c" -> IF w = <<>> THEN <<>>
                    ELSE ToUppercase(w[1]) \o str_to_lowercase(SubSeq(w, 2, Len(w)))
      [] o = "C" -> IF w = <<>> THEN <<>>
                    ELSE ToLowercase(w[1]) \o str_to_uppercase(SubSeq(w, 2, Len(w)))
      [] o = "t" -> [i \in 1..Len(w) |-> ToggleChar(w[i])]

HeLLo == Str(<<"H", "e", "L", "L", "o">>)

\* C18 as stated: the lines of `lu\nc` on HeLLo give hello and then Hello.
C18_AsStated ==
    (pc = "done" /\ rules = <<Str(<<"l", "u">>), Str(<<"c">>)>> /\ words = <<HeLLo>>) =>
        output_array = <<Str(<<"h", "e", "l", "l", "o">>), Str(<<"H", "e", "l", "l", "o">>)>>

\* C18, amended: the lines of `lu\nc` on HeLLo give HELLO and then Hello.
C18_MultiLine ==
    (pc = "done" /\ rules = <<Str(<<"l", "u">>), Str(<<"c">>)>> /\ words = <<HeLLo>>) =>
        output_array = <<Str(<<"H", "E", "L", "L", "O">>), Str(<<"H", "e", "l", "l", "o">>)>>

C18_Witness ==
    /\ pc = "done"
    /\ rules = <<Str(<<"l", "u">>), Str(<<"c">>)>>
    /\ words = <<HeLLo>>
    /\ Len(output_array) = 2

(***************************************************************************)
(* The runs of adjacent Append rules and of adjacent Prepend rules of a    *)
(* sequence, and the sequence with each run replaced by one rule.          *)
(***************************************************************************)
InRun(rs, i) == i > 1 /\ rs[i].op \in {"Append", "Prepend"} /\ rs[i].op = rs[i - 1].op

RunStarts(rs) == {i \in 1..Len(rs) : ~InRun(rs, i)}

\* The last index of the run that starts at i.
RunEnd(rs, i) ==
    CHOOSE j \in i..Len(rs) :
        /\ \A k \in (i + 1)..j : InRun(rs, k)
        /\ j = Len(rs) \/ ~InRun(rs, j + 1)

RECURSIVE StringsInOrder(_, _, _)
StringsInOrder(rs, i, j) == IF i > j THEN <<>> ELSE rs[i].s \o StringsInOrder(rs, i + 1, j)

RECURSIVE StringsReversed(_, _, _)
StringsReversed(rs, i, j) == IF i > j THEN <<>> ELSE rs[j].s \o StringsReversed(rs, i, j - 1)

RunMerged(rs, i) ==
    IF rs[i].op = "Append" THEN TS("Append", StringsInOrder(rs, i, RunEnd(rs, i)))
    ELSE IF rs[i].op = "Prepend" THEN TS("Prepend", StringsReversed(rs, i, RunEnd(rs, i)))
    ELSE rs[i]

\* The k-th smallest element of a set of indices.
Nth(S, k) == CHOOSE i \in S : Cardinality({j \in S : j <= i}) = k

RunsMerged(rs) ==
    [k \in 1..Cardinality(RunStarts(rs)) |-> RunMerged(rs, Nth(RunStarts(rs), k))]

\* C19: simplify replaces every run of adjacent Append rules by one Append of
\* their strings in order and every run of adjacent Prepend rules by one
\* Prepend of their strings in reverse order, and the result gives every word
\* the output the input sequence gives it.
C19_RunsMerged ==
    ev_pc = "done" =>
        /\ ev_simplified = RunsMerged(ev_rules)
        /\ ev_via = ev_direct

C19_Witness ==
    /\ ev_pc = "done"
    /\ ev_rules = <<TS("Prepend", Str(<<"a">>)), TS("Prepend", Str(<<"b">>)),
                    TS("Prepend", Str(<<"b">>))>>
    /\ ev_simplified = <<TS("Prepend", Str(<<"b", "b", "a">>))>>
    /\ ev_word = Str(<<"A", "b">>)
    /\ ev_via = Some(Str(<<"b", "b", "a", "A", "b">>))

\* Every character of the word is one byte.
AsciiWord(w) == \A i \in 1..Len(w) : w[i] < 128

ByteMapped(w, f(_)) == Some([i \in 1..Len(w) |-> f(w[i])])

\* C21: for every n in 0..255 and every byte b, AsciiIncrement(n) gives
\* (b + n) mod 256, AsciiDecrement(n) (b - n) mod 256, BitwiseShiftLeft(n)
\* (b * 2^n) mod 256 and BitwiseShiftRight(n) floor(b / 2^n), shift counts
\* of 8 and more included, and none fails.
C21_ByteArithmetic ==
    (ev_pc # "start" /\ Len(ev_rules) = 1 /\ AsciiWord(ev_word)) =>
        LET n == ev_rules[1].n
            op == ev_rules[1].op
        IN  /\ op = "AsciiIncrement" => ev_direct = ByteMapped(ev_word, LAMBDA b : (b + n) % 256)
            /\ op = "AsciiDecrement" => ev_direct = ByteMapped(ev_word, LAMBDA b : (b - n) % 256)
            /\ op = "BitwiseShiftLeft" =>
                  ev_direct = ByteMapped(ev_word, LAMBDA b : (b * (2 ^ n)) % 256)
            /\ op = "BitwiseShiftRight" =>
                  ev_direct = ByteMapped(ev_word, LAMBDA b : b \div (2 ^ n))

\* C22: Replace with an empty search string and Purge of the empty string
\* return the word unchanged, whatever the replacement.
C22_EmptySearchUnchanged ==
    (SingleRule({"Replace", "Purge"}) /\ ev_rules[1].s = <<>>) => ev_direct = Some(ev_word)

\* C23: the sequence simplify returns holds no NoOp.
C23_NoNoOpLeft ==
    ev_pc = "done" => \A i \in 1..Len(ev_simplified) : ev_simplified[i].kind # "NoOp"

\* C24: simplify of what simplify returned returns it again.
C24_SimplifyIdempotent ==
    ev_pc = "done" => Rule_simplify(ev_simplified) = ev_simplified

\* C25: Overwrite(n, c) with a one-character c returns a word of the length of
\* its input, and the input itself when n is not below its length.
C25_OverwriteKeepsLength ==
    (SingleRule({"Overwrite"}) /\ Len(ev_rules[1].s) = 1) =>
        /\ ev_direct.st = "Some"
        /\ Len(ev_direct.val) = Len(ev_word)
        /\ ev_rules[1].n >= Len(ev_word) => ev_direct.val = ev_word

\* The lines among the first k that parse.
ParsedAmong(k) == Cardinality({j \in 1..k : ParsesOk(rules[j])})

HasReject(rs) == \E i \in 1..Len(rs) : rs[i].kind = "Reject"

\* C26: a line that parses adds at most one output per word, and one per word
\* when its rules hold no Reject rule; a line that does not parse adds none;
\* so at every point the output has at most (lines parsed) * |words| elements.
C26_OutputBound ==
    /\ Len(output_array) <= ParsedAmong(LinesDone) * Len(words)
    /\ pc = "extend" =>
          /\ Len(thread_results) <= Len(words)
          /\ ~HasReject(rules_slice) => Len(thread_results) = Len(words)
    /\ (pc = "done" /\ \A j \in 1..Len(rules) : ~ParsesOk(rules[j])) => output_array = <<>>

C26_Witness ==
    /\ pc = "done"
    /\ Len(rules) = 2 /\ Len(words) = 2
    /\ ParsesOk(rules[1]) /\ ~ParsesOk(rules[2])
    /\ Len(output_array) = 2

==========================================================================
